---------------------------- MODULE Spec2Model ----------------------------
(***************************************************************************)
(* Canonical binary encoding of the Uplink transaction headers and typed   *)
(* values (uplink/protocol.py).                                            *)
(*                                                                         *)
(* A Python value is a record [t |-> type, v |-> payload]:                 *)
(*   "str"   text, v = the sequence of code points                         *)
(*   "bytes" byte string, v = the sequence of octets                       *)
(*   "int"   integer, v = <<top, mid, low>> with                           *)
(*           value = top * 2^48 + mid * 2^24 + low, 0 <= mid, low < 2^24   *)
(*   "none"  None                                                          *)
(*   "dict"  dict, v = the (key, value) pairs in insertion order           *)
(*   "list"  list, v = the elements                                        *)
(* The module is six-compatible, so the interpreter (py = 2 or 3) is part  *)
(* of the state: on Python 2 the native str is a byte string.              *)
(* The result of a call that may raise is [err |-> exception name or "",   *)
(* bytes |-> the returned bytes].                                          *)
(***************************************************************************)
EXTENDS Integers, Sequences, FiniteSets, Bags, TLC

VARIABLES
    py,        \* the interpreter's major version
    request,   \* the last constructor call: its class and arguments
    header,    \* the object the constructor returned, NoObject if it raised
    built,     \* the object as the constructor returned it
    raised,    \* the exception the constructor raised, "" if none
    out,       \* what the last to_binary call returned or raised
    firstOut,  \* what the first to_binary call on the object returned or raised
    signed     \* the sign calls made on the object, a bag

vars == <<py, request, header, built, raised, out, firstOut, signed>>

-----------------------------------------------------------------------------
(* Python values *)

Str(s) == [t |-> "str", v |-> s]

Bytes(b) == [t |-> "bytes", v |-> b]

None == [t |-> "none", v |-> <<>>]

Limb == 256 * 256 * 256

PyInt(top, mid, low) == [t |-> "int", v |-> <<top, mid, low>>]

\* the int object of a small natural (a len() result, a literal)
IntOf(n) == PyInt(0, n \div Limb, n % Limb)

IsNone(x) == x.t = "none"

Ok(b) == [err |-> "", bytes |-> b]

Raise(e) == [err |-> e, bytes |-> <<>>]

\* the first exception among the evaluated arguments, in evaluation order
RECURSIVE FirstErr(_)
FirstErr(rs) ==
    IF rs = <<>> THEN ""
    ELSE IF Head(rs).err # "" THEN Head(rs).err
    ELSE FirstErr(Tail(rs))

-----------------------------------------------------------------------------
(* Byte strings *)

\* n as w big-endian octets, two's complement for a negative n
RECURSIVE BytesBE(_, _)
BytesBE(n, w) ==
    IF w = 0 THEN <<>> ELSE Append(BytesBE(n \div 256, w - 1), n % 256)

Zeros(n) == [i \in 1..n |-> 0]

\* struct's "<n>s": exactly n octets, cut or padded with NUL on the right
FitTo(b, n) ==
    IF Len(b) >= n THEN SubSeq(b, 1, n) ELSE b \o Zeros(n - Len(b))

RECURSIVE Flatten(_)
Flatten(ss) == IF ss = <<>> THEN <<>> ELSE Head(ss) \o Flatten(Tail(ss))

\* the eight octets of an int object in two's complement
Int8(x) ==
    BytesBE(x.v[1] % 65536, 2) \o BytesBE(x.v[2], 3) \o BytesBE(x.v[3], 3)

-----------------------------------------------------------------------------
(* str.encode() *)

Utf8Char(c) ==
    IF c < 128 THEN <<c>>
    ELSE IF c < 2048 THEN <<192 + (c \div 64), 128 + (c % 64)>>
    ELSE <<224 + (c \div 4096), 128 + ((c \div 64) % 64), 128 + (c % 64)>>

RECURSIVE Utf8(_)
Utf8(s) == IF s = <<>> THEN <<>> ELSE Utf8Char(Head(s)) \o Utf8(Tail(s))

IsAscii(s) == \A i \in 1..Len(s) : s[i] < 128

\* x.encode(): UTF-8 on Python 3; on Python 2 the default codec is ASCII and
\* the native str is already a byte string
Encode(p, x) ==
    IF p = 3
    THEN IF x.t = "str" THEN Ok(Utf8(x.v)) ELSE Raise("AttributeError")
    ELSE IF x.t \in {"str", "bytes"}
         THEN IF IsAscii(x.v) THEN Ok(x.v) ELSE Raise("UnicodeError")
         ELSE Raise("AttributeError")

\* len(x)
HasLen(x) == x.t \in {"str", "bytes", "dict", "list"}

PyLen(x) == Len(x.v)

-----------------------------------------------------------------------------
(* base58.b58decode *)

Alphabet ==
    <<49, 50, 51, 52, 53, 54, 55, 56, 57, 65, 66, 67, 68, 69, 70, 71, 72, 74,
      75, 76, 77, 78, 80, 81, 82, 83, 84, 85, 86, 87, 88, 89, 90, 97, 98, 99,
      100, 101, 102, 103, 104, 105, 106, 107, 109, 110, 111, 112, 113, 114,
      115, 116, 117, 118, 119, 120, 121, 122>>

\* alphabet.index(c) for the octets 0..255, -1 where index() raises
B58Map ==
    [c \in 0..255 |->
        IF \E i \in 1..Len(Alphabet) : Alphabet[i] = c
        THEN (CHOOSE i \in 1..Len(Alphabet) : Alphabet[i] = c) - 1
        ELSE -1]

IsB58(c) == c \in DOMAIN B58Map /\ B58Map[c] >= 0

B58Index(c) == B58Map[c]

\* acc * 58 + carry, acc a little-endian number in digits of 24 bits
RECURSIVE MulAdd(_, _)
MulAdd(acc, carry) ==
    IF acc = <<>>
    THEN IF carry = 0 THEN <<>> ELSE <<carry>>
    ELSE LET x == Head(acc) * 58 + carry
         IN  <<x % Limb>> \o MulAdd(Tail(acc), x \div Limb)

\* the octets of such a number, most significant first, without leading zeros
RECURSIVE StripZeros(_)
StripZeros(b) == IF b # <<>> /\ Head(b) = 0 THEN StripZeros(Tail(b)) ELSE b

RECURSIVE LimbOctets(_)
LimbOctets(acc) ==
    IF acc = <<>> THEN <<>>
    ELSE LimbOctets(Tail(acc)) \o BytesBE(Head(acc), 3)


RECURSIVE B58Int(_, _)
B58Int(s, acc) ==
    IF s = <<>> THEN acc
    ELSE B58Int(Tail(s), MulAdd(acc, B58Index(Head(s))))

RECURSIVE LeadingOnes(_)
LeadingOnes(s) ==
    IF s # <<>> /\ Head(s) = Alphabet[1] THEN 1 + LeadingOnes(Tail(s)) ELSE 0

b58decode(p, x) ==
    IF ~(x.t \in {"str", "bytes"}) THEN Raise("TypeError")
    ELSE IF \E i \in 1..Len(x.v) : ~IsB58(x.v[i]) THEN Raise("ValueError")
    ELSE LET n == LeadingOnes(x.v)
         IN  Ok(Zeros(n) \o
                StripZeros(LimbOctets(B58Int(SubSeq(x.v, n + 1, Len(x.v)), <<>>))))

-----------------------------------------------------------------------------
(* struct.pack, big-endian standard sizes (">"): no padding between items  *)

\* one item of a format: code c, repeat count n (for "s"), argument a
Item(c, n, a) == [c |-> c, n |-> n, a |-> a]

InRange(code, x) ==
    /\ x.t = "int"
    /\ CASE code = "H" -> x.v[1] = 0 /\ x.v[2] = 0 /\ x.v[3] < 65536
         [] code = "Q" -> x.v[1] >= 0 /\ x.v[1] < 65536
         [] code = "q" -> x.v[1] >= -32768 /\ x.v[1] < 32768
         [] code = "b" -> \/ x.v[1] = 0 /\ x.v[2] = 0 /\ x.v[3] < 128
                          \/ x.v[1] = -1 /\ x.v[2] = Limb - 1 /\ x.v[3] >= Limb - 128

Width(code) == CASE code = "H" -> 2 [] code = "Q" -> 8 [] code = "q" -> 8 [] code = "b" -> 1

\* "s" takes a bytes object; the native str of Python 2 is one
IsBytesLike(p, x) == x.t = "bytes" \/ (p = 2 /\ x.t = "str")

\* bool(x), which "?" stores as one octet
Truthy(x) ==
    CASE x.t = "int" -> x.v # <<0, 0, 0>>
      [] x.t = "none" -> FALSE
      [] OTHER -> Len(x.v) > 0

PackItem(p, it) ==
    IF it.c = "s"
    THEN IF IsBytesLike(p, it.a) THEN Ok(FitTo(it.a.v, it.n)) ELSE Raise("struct.error")
    ELSE IF it.c = "?" THEN Ok(<<IF Truthy(it.a) THEN 1 ELSE 0>>)
    ELSE IF InRange(it.c, it.a)
         THEN Ok(SubSeq(Int8(it.a), 9 - Width(it.c), 8))
         ELSE Raise("struct.error")

RECURSIVE PackItems(_, _)
PackItems(p, items) ==
    IF items = <<>> THEN Ok(<<>>)
    ELSE LET r == PackItem(p, Head(items))
         IN  IF r.err # "" THEN r
             ELSE LET rest == PackItems(p, Tail(items))
                  IN  IF rest.err # "" THEN rest ELSE Ok(r.bytes \o rest.bytes)

\* struct.pack(fmt, *args): the argument expressions are evaluated first
StructPack(p, evals, items) ==
    IF FirstErr(evals) # "" THEN Raise(FirstErr(evals)) ELSE PackItems(p, items)

\* r1 then r2, the first exception ending the computation
Then(r1, r2) ==
    IF r1.err # "" THEN r1 ELSE IF r2.err # "" THEN r2 ELSE Ok(r1.bytes \o r2.bytes)

-----------------------------------------------------------------------------
(* uplink.enum *)

TxType ==
    [CreateContract |-> 1000, SyncLocal |-> 1001, Call |-> 1002,
     CreateAsset |-> 1003, Transfer |-> 1004, Circulate |-> 1005,
     Bind |-> 1006, RevokeAsset |-> 1007, CreateAccount |-> 1008,
     RevokeAccount |-> 1009]

VType ==
    [VInt |-> 0, VFloat |-> 1, VBool |-> 2, VAddress |-> 3, VAccount |-> 4,
     VAsset |-> 5, VContract |-> 6, VMsg |-> 7, VVoid |-> 8, VDateTime |-> 9,
     VTimeDelta |-> 10, VUndefined |-> 11]

AssetFractional == Str(<<70, 114, 97, 99, 116, 105, 111, 110, 97, 108>>)

AssetDiscrete == Str(<<68, 105, 115, 99, 114, 101, 116, 101>>)

AssetBinary == Str(<<66, 105, 110, 97, 114, 121>>)

-----------------------------------------------------------------------------
(* Typed values: VInt, VBool, VAddress, VAccount, VAsset, VContract, VMsg,  *)
(* VVoid, VUndefined.  A value is [tag |-> class name, contents |-> field]. *)

Value(tag, contents) == [tag |-> tag, contents |-> contents]

ValueToBinary(p, x) ==
    LET tg == IntOf(VType[x.tag])
    IN  CASE x.tag = "VInt" ->
                StructPack(p, <<>>, <<Item("b", 1, tg), Item("q", 1, x.contents)>>)
          [] x.tag = "VBool" ->
                StructPack(p, <<>>, <<Item("b", 1, tg), Item("?", 1, x.contents)>>)
          [] x.tag \in {"VAddress", "VAccount", "VAsset", "VContract"} ->
                LET a == b58decode(p, x.contents)
                IN  StructPack(p, <<a>>, <<Item("b", 1, tg), Item("s", 32, Bytes(a.bytes))>>)
          [] x.tag = "VMsg" ->
                IF ~HasLen(x.contents) THEN Raise("TypeError")
                ELSE LET e == Encode(p, x.contents)
                     IN  StructPack(p, <<e>>,
                             <<Item("b", 1, tg), Item("H", 1, IntOf(PyLen(x.contents))),
                               Item("s", PyLen(x.contents), Bytes(e.bytes))>>)
          [] x.tag \in {"VVoid", "VUndefined"} ->
                StructPack(p, <<>>, <<Item("b", 1, tg)>>)

RECURSIVE JoinArgs(_, _)
JoinArgs(p, args) ==
    IF args = <<>> THEN Ok(<<>>)
    ELSE Then(ValueToBinary(p, Head(args)), JoinArgs(p, Tail(args)))

-----------------------------------------------------------------------------
(* dict and sorted() *)

\* a < b for two str objects' code points
RECURSIVE LexLess(_, _)
LexLess(a, b) ==
    IF b = <<>> THEN FALSE
    ELSE IF a = <<>> THEN TRUE
    ELSE IF Head(a) # Head(b) THEN Head(a) < Head(b)
    ELSE LexLess(Tail(a), Tail(b))

RECURSIVE Insert(_, _)
Insert(k, ks) ==
    IF ks = <<>> THEN <<k>>
    ELSE IF LexLess(k, Head(ks)) THEN <<k>> \o ks
    ELSE <<Head(ks)>> \o Insert(k, Tail(ks))

RECURSIVE Sorted(_)
Sorted(ks) == IF ks = <<>> THEN <<>> ELSE Insert(Head(ks), Sorted(Tail(ks)))

\* six.iterkeys(d): the keys in insertion order
IterKeys(d) == [i \in 1..Len(d.v) |-> d.v[i][1]]

\* d[key]
GetItem(d, k) == d.v[CHOOSE i \in 1..Len(d.v) : d.v[i][1] = k][2]

-----------------------------------------------------------------------------
(* Transaction headers and AssetType: an object is a record with the        *)
(* class in kind and the attributes the constructor sets.                   *)

\* one metadata entry of CreateAccountHeader.to_binary's loop body
MetaEntry(p, d, key) ==
    LET value == GetItem(d, key)
    IN  IF ~HasLen(value) THEN Raise("TypeError")
        ELSE LET ek == Encode(p, Str(key))
                 ev == Encode(p, value)
             IN  StructPack(p, <<ek, ev>>,
                     <<Item("H", 1, IntOf(Len(key))), Item("s", Len(key), Bytes(ek.bytes)),
                       Item("H", 1, IntOf(PyLen(value))), Item("s", PyLen(value), Bytes(ev.bytes))>>)

RECURSIVE MetaStructure(_, _, _)
MetaStructure(p, d, keys) ==
    IF keys = <<>> THEN Ok(<<>>)
    ELSE Then(MetaEntry(p, d, Head(keys)), MetaStructure(p, d, Tail(keys)))

\* variant: the keys as the dict yields them, sorted() left out
MetaKeyOrder_unsorted(d) == IterKeys(d)

\* the order in which to_binary visits the metadata keys
MetaKeyOrder(d) == Sorted(IterKeys(d))

\* the fields both branches of CreateAccountHeader.to_binary pack first
CreateAccountFront(p, h) ==
    <<Item("H", 1, IntOf(TxType.CreateAccount)),
      Item("H", 1, IntOf(PyLen(h.pubKey))),
      Item("s", PyLen(h.pubKey), h.pubKey),
      Item("H", 1, IntOf(PyLen(h.timezone))),
      Item("s", PyLen(h.timezone), Bytes(Encode(p, h.timezone).bytes))>>

\* the branch of len(self.metadata) > 0: prefix, count, entries
CreateAccountWithEntries(p, h) ==
    Then(Then(StructPack(p, <<Encode(p, h.timezone)>>, CreateAccountFront(p, h)),
              StructPack(p, <<>>, <<Item("H", 1, IntOf(PyLen(h.metadata)))>>)),
         MetaStructure(p, h.metadata, MetaKeyOrder(h.metadata)))

\* the else branch: prefix and a zero count in one pack
CreateAccountNoEntries(p, h) ==
    StructPack(p, <<Encode(p, h.timezone)>>,
               Append(CreateAccountFront(p, h), Item("H", 1, IntOf(0))))

CreateAccountHeader_to_binary(p, h) ==
    IF ~HasLen(h.timezone) \/ ~HasLen(h.pubKey) THEN Raise("TypeError")
    ELSE IF PyLen(h.metadata) > 0 THEN CreateAccountWithEntries(p, h)
    ELSE CreateAccountNoEntries(p, h)

\* variant: range(1, 8) in place of range(1, 7)
AssetType_init_err_wide(type, precision) ==
    IF type \in {AssetFractional, AssetDiscrete, AssetBinary}
    THEN IF type = AssetFractional
         THEN IF \E x \in 1..7 : precision = IntOf(x) THEN "" ELSE "ValueError"
         ELSE IF ~IsNone(precision) THEN "ValueError" ELSE ""
    ELSE IF type.t = "str" THEN "ValueError" ELSE "TypeError"

\* AssetType.__init__: the exception it raises, "" when it returns
AssetType_init_err(type, precision) ==
    IF type \in {AssetFractional, AssetDiscrete, AssetBinary}
    THEN IF type = AssetFractional
         THEN IF \E x \in 1..6 : precision = IntOf(x) THEN "" ELSE "ValueError"
         ELSE IF ~IsNone(precision) THEN "ValueError" ELSE ""
    ELSE IF type.t = "str" THEN "ValueError" ELSE "TypeError"

\* the attributes AssetType.__init__ leaves on the object it returns
AssetType_init(type, precision) ==
    [kind |-> "AssetType", type |-> type,
     precision |-> IF type = AssetFractional THEN precision ELSE None]

\* variant: the precision field packed for every kind, 0 standing for None
AssetType_to_binary_padded(p, h) ==
    LET e == Encode(p, h.type)
        typ == StructPack(p, <<e>>, <<Item("H", 1, IntOf(PyLen(h.type))),
                                      Item("s", PyLen(h.type), Bytes(e.bytes))>>)
        mprec == StructPack(p, <<>>, <<Item("q", 1, IF IsNone(h.precision) THEN IntOf(0)
                                                    ELSE h.precision)>>)
    IN  Then(typ, mprec)

AssetType_to_binary(p, h) ==
    LET e == Encode(p, h.type)
        typ == StructPack(p, <<e>>, <<Item("H", 1, IntOf(PyLen(h.type))),
                                      Item("s", PyLen(h.type), Bytes(e.bytes))>>)
        mprec == IF IsNone(h.precision) THEN Ok(<<>>)
                 ELSE StructPack(p, <<>>, <<Item("q", 1, h.precision)>>)
    IN  Then(typ, mprec)

\* int(x) for an int, None or a str of decimal digits
RECURSIVE Decimal(_, _)
Decimal(s, acc) ==
    IF s = <<>> THEN acc ELSE Decimal(Tail(s), acc * 10 + (Head(s) - 48))

IntConv(x) ==
    CASE x.t = "int" -> [err |-> "", val |-> x]
      [] x.t = "str" ->
            IF x.v # <<>> /\ \A i \in 1..Len(x.v) : x.v[i] \in 48..57
            THEN [err |-> "", val |-> IntOf(Decimal(x.v, 0))]
            ELSE [err |-> "ValueError", val |-> None]
      [] OTHER -> [err |-> "TypeError", val |-> None]

\* str(x) for a str or None
StrConv(x) == IF IsNone(x) THEN Str(<<78, 111, 110, 101>>) ELSE x

\* uplink.cryptography.derive_asset_address: a pure function of its five
\* arguments whose result is the base58 text of a 32-byte address
derive_asset_address(name, issuer, supply, reference, assetType) ==
    Str([i \in 1..30 |-> 49] \o
        <<Alphabet[1 + ((Len(name.v) + Len(StrConv(reference).v)) % 58)],
          Alphabet[1 + ((Len(assetType.type.v) + Len(issuer.v)) % 58)]>>)

\* AssetTypeParams.__init__: type_.encode() is a bytes object on Python 3 and
\* the native str on Python 2
AssetTypeParams(p, type_, precision) ==
    [tag |-> IF p = 3 THEN Bytes(Encode(p, type_).bytes) ELSE Str(Encode(p, type_).bytes),
     contents |-> precision]

CreateAssetHeader_init_err(name, supply, asset_type, reference, issuer, precision) ==
    IF AssetType_init_err(asset_type, precision) # ""
    THEN AssetType_init_err(asset_type, precision)
    ELSE IntConv(supply).err

CreateAssetHeader_init(p, name, supply, asset_type, reference, issuer, precision) ==
    [kind |-> "CreateAsset",
     assetAddr |-> derive_asset_address(name, issuer, supply, reference,
                                        AssetType_init(asset_type, precision)),
     assetName |-> name,
     supply |-> IntConv(supply).val,
     issuer |-> issuer,
     reference |-> StrConv(reference),
     assetType |-> AssetTypeParams(p, asset_type, precision)]

\* the test "_asset_type == 'Fractional'" of CreateAssetHeader.to_binary
IsFractionalTag(tag) == tag = AssetFractional

CreateAssetHeader_to_binary(p, h) ==
    LET precision == h.assetType.contents
        asset_type == h.assetType.tag
    IN  IF ~HasLen(h.assetName) THEN Raise("TypeError")
        ELSE LET addr == b58decode(p, h.assetAddr)
                 nm == Encode(p, h.assetName)
                 rf == Encode(p, h.reference)
                 common == <<Item("H", 1, IntOf(TxType.CreateAsset)),
                             Item("s", 32, Bytes(addr.bytes)),
                             Item("H", 1, IntOf(PyLen(h.assetName))),
                             Item("s", PyLen(h.assetName), Bytes(nm.bytes)),
                             Item("Q", 1, h.supply),
                             Item("H", 1, IntOf(1)),
                             Item("H", 1, IntOf(PyLen(h.reference))),
                             Item("s", PyLen(h.reference), Bytes(rf.bytes)),
                             Item("H", 1, IntOf(PyLen(asset_type))),
                             Item("s", PyLen(asset_type), asset_type)>>
             IN  IF IsFractionalTag(asset_type)
                 THEN LET pr == IntConv(precision)
                      IN  StructPack(p, <<addr, nm, rf, [err |-> pr.err, bytes |-> <<>>]>>,
                                     Append(common, Item("Q", 1, pr.val)))
                 ELSE StructPack(p, <<addr, nm, rf>>, common)

CreateContractHeader_init(script, owner, address, timestamp) ==
    [kind |-> "CreateContract", script |-> StrConv(script), owner |-> StrConv(owner),
     address |-> StrConv(address), timestamp |-> timestamp]

CreateContractHeader_to_binary(p, h) ==
    LET address == b58decode(p, h.address)
        sc == Encode(p, h.script)
    IN  StructPack(p, <<address, sc>>,
            <<Item("H", 1, IntOf(TxType.CreateContract)),
              Item("s", 32, Bytes(address.bytes)),
              Item("H", 1, IntOf(PyLen(h.script))),
              Item("s", PyLen(h.script), Bytes(sc.bytes))>>)

\* variant: the balance packed as "Q", as CreateAssetHeader packs the supply
TransferAssetHeader_to_binary_unsigned(p, h) ==
    LET a == b58decode(p, h.assetAddr)
        t == b58decode(p, h.toAddr)
    IN  StructPack(p, <<a, t>>,
            <<Item("H", 1, IntOf(TxType.Transfer)), Item("s", 32, Bytes(a.bytes)),
              Item("s", 32, Bytes(t.bytes)), Item("Q", 1, h.balance)>>)

TransferAssetHeader_to_binary(p, h) ==
    LET a == b58decode(p, h.assetAddr)
        t == b58decode(p, h.toAddr)
    IN  StructPack(p, <<a, t>>,
            <<Item("H", 1, IntOf(TxType.Transfer)), Item("s", 32, Bytes(a.bytes)),
              Item("s", 32, Bytes(t.bytes)), Item("q", 1, h.balance)>>)

CirculateAssetHeader_to_binary(p, h) ==
    LET a == b58decode(p, h.assetAddr)
    IN  StructPack(p, <<a>>,
            <<Item("H", 1, IntOf(TxType.Circulate)), Item("s", 32, Bytes(a.bytes)),
              Item("q", 1, h.amount)>>)

RevokeAccountHeader_to_binary(p, h) ==
    LET a == b58decode(p, h.address)
    IN  StructPack(p, <<a>>,
            <<Item("H", 1, IntOf(TxType.RevokeAccount)), Item("s", 32, Bytes(a.bytes))>>)

RevokeAssetHeader_to_binary(p, h) ==
    LET a == b58decode(p, h.address)
    IN  StructPack(p, <<a>>,
            <<Item("H", 1, IntOf(TxType.RevokeAsset)), Item("s", 32, Bytes(a.bytes))>>)

CallHeader_to_binary(p, h) ==
    IF h.args.t # "list" THEN Raise("TypeError")
    ELSE LET binary_args == JoinArgs(p, h.args.v)
         IN  IF binary_args.err # "" THEN binary_args
             ELSE IF ~HasLen(h.method) THEN Raise("TypeError")
             ELSE LET a == b58decode(p, h.address)
                      m == Encode(p, h.method)
                  IN  StructPack(p, <<a, m>>,
                          <<Item("H", 1, IntOf(TxType.Call)),
                            Item("s", 32, Bytes(a.bytes)),
                            Item("Q", 1, IntOf(PyLen(h.method))),
                            Item("s", PyLen(h.method), Bytes(m.bytes)),
                            Item("Q", 1, IntOf(PyLen(h.args))),
                            Item("s", Len(binary_args.bytes), Bytes(binary_args.bytes))>>)

BindHeader_to_binary(p, h) ==
    IF ~HasLen(h.proof) THEN Raise("TypeError")
    ELSE LET c == Encode(p, h.contract)
             a == Encode(p, h.asset)
         IN  StructPack(p, <<c, a>>,
                 <<Item("H", 1, IntOf(TxType.Bind)), Item("s", 32, Bytes(c.bytes)),
                   Item("s", 32, Bytes(a.bytes)), Item("s", PyLen(h.proof), h.proof)>>)

SyncHeader_to_binary(p, h) ==
    StructPack(p, <<>>,
        <<Item("H", 1, IntOf(TxType.SyncLocal)), Item("s", 32, h.contract)>>)

\* the to_binary of the object's class
to_binary(p, h) ==
    CASE h.kind = "AssetType" -> AssetType_to_binary(p, h)
      [] h.kind = "CreateAccount" -> CreateAccountHeader_to_binary(p, h)
      [] h.kind = "CreateAsset" -> CreateAssetHeader_to_binary(p, h)
      [] h.kind = "CreateContract" -> CreateContractHeader_to_binary(p, h)
      [] h.kind = "Transfer" -> TransferAssetHeader_to_binary(p, h)
      [] h.kind = "Circulate" -> CirculateAssetHeader_to_binary(p, h)
      [] h.kind = "RevokeAccount" -> RevokeAccountHeader_to_binary(p, h)
      [] h.kind = "RevokeAsset" -> RevokeAssetHeader_to_binary(p, h)
      [] h.kind = "Call" -> CallHeader_to_binary(p, h)
      [] h.kind = "Bind" -> BindHeader_to_binary(p, h)
      [] h.kind = "SyncLocal" -> SyncHeader_to_binary(p, h)

-----------------------------------------------------------------------------
(* uplink.cryptography.ecdsa_sign: the signature is a function of the key,  *)
(* the message and the nonce; without k the signer draws the nonce itself.  *)

\* the nonces the signer may draw by itself
RandomNonces == {IntOf(11), IntOf(13)}

ecdsa_sign(privkey, stream, nonce) == [key |-> privkey, msg |-> stream, nonce |-> nonce]

-----------------------------------------------------------------------------
(* Bounds and inputs *)

MaxMeta == 2

MaxArgs == 2

MaxSigns == 2

Interpreters == {2, 3}

NoObject == [kind |-> "none"]

NotCalled == [err |-> "not called", bytes |-> <<>>]

\* 32 NUL octets, 32 octets 0xFF, one octet ("2g"), not base58 ("0OIl"),
\* and a raw 32-octet identifier
Addr0 == Str([i \in 1..32 |-> 49])

AddrFF ==
    Str(<<74, 69, 75, 78, 86, 110, 107, 98, 111, 51, 106, 109, 97, 53, 110, 82,
          69, 66, 66, 74, 67, 68, 111, 88, 70, 86, 101, 75, 107, 68, 53, 54, 86,
          51, 120, 75, 114, 118, 82, 109, 87, 120, 70, 71>>)

AddrShort == Str(<<50, 103>>)

AddrBad == Str(<<48, 79, 73, 108>>)

AddrRaw == Bytes([i \in 1..32 |-> 7])

\* -5, 0, 2^63 - 1, -2^63, 2^63, -2^63 - 1 and the str "5"
Amounts ==
    {PyInt(-1, Limb - 1, Limb - 5), IntOf(0), PyInt(32767, Limb - 1, Limb - 1),
     PyInt(-32768, 0, 0), PyInt(32768, 0, 0), PyInt(-32769, Limb - 1, Limb - 1),
     Str(<<53>>)}

\* "UTC" and "Zür"
Timezones == {Str(<<85, 84, 67>>), Str(<<90, 252, 114>>)}

PubKeyOctets == [i \in 1..32 |-> i]

\* "b": "2", "a": "1", "ab": "é"
MetaItems ==
    {<<<<98>>, Str(<<50>>)>>, <<<<97>>, Str(<<49>>)>>, <<<<97, 98>>, Str(<<233>>)>>}

\* the sequences over S of length at most n
RECURSIVE SeqsUpTo(_, _)
SeqsUpTo(S, n) ==
    IF n = 0 THEN {<<>>}
    ELSE LET shorter == SeqsUpTo(S, n - 1)
         IN  shorter \cup {Append(q, x) : q \in shorter, x \in S}

\* the dicts of at most MaxMeta entries, by insertion order
Metadatas ==
    {[t |-> "dict", v |-> q] :
        q \in {r \in SeqsUpTo(MetaItems, MaxMeta) :
                  \A i, j \in 1..Len(r) : i # j => r[i][1] # r[j][1]}}

\* "ab", "é"
AssetNames == {Str(<<97, 98>>), Str(<<233>>)}

\* "USD", None
References == {Str(<<85, 83, 68>>), None}

\* 5, -1, "12", None
Supplies == {IntOf(5), PyInt(-1, Limb - 1, Limb - 1), Str(<<49, 50>>), None}

AssetKinds == {AssetFractional, AssetDiscrete, AssetBinary, Str(<<79, 116, 104, 101, 114>>)}

\* None, 0, 1, 3, 6, 7, "3"
Precisions == {None, IntOf(0), IntOf(1), IntOf(3), IntOf(6), IntOf(7), Str(<<51>>)}

\* "f", "é"
Methods == {Str(<<102>>), Str(<<233>>)}

\* "x", "é", None
Scripts == {Str(<<120>>), Str(<<233>>), None}

\* VInt(-5), VMsg("hé")
ArgValues ==
    {Value("VInt", PyInt(-1, Limb - 1, Limb - 5)), Value("VMsg", Str(<<104, 233>>))}

ArgLists == {[t |-> "list", v |-> q] : q \in SeqsUpTo(ArgValues, MaxArgs)} \cup {None}

Proofs == {Bytes(<<1, 2, 3>>), Bytes(<<>>), Str(<<112>>)}

PrivKeys == {"sk1", "sk2"}

\* sign(privkey, k): either key with the nonce 7, and one call without k
SignRequests == {<<key, IntOf(7)>> : key \in PrivKeys} \cup {<<"sk1", None>>}

-----------------------------------------------------------------------------
(* The life of one object: constructed, encoded and signed any number of    *)
(* times, discarded.                                                        *)

Init ==
    /\ py \in Interpreters
    /\ request = NoObject
    /\ header = NoObject
    /\ built = NoObject
    /\ raised = ""
    /\ out = NotCalled
    /\ firstOut = NotCalled
    /\ signed = EmptyBag

\* no object is alive and no exception is being handled
Idle == header = NoObject /\ raised = ""

\* the constructor call rq, which raises err or returns obj
Construct(rq, err, obj) ==
    /\ request' = rq
    /\ raised' = err
    /\ header' = IF err = "" THEN obj ELSE NoObject
    /\ built' = header'
    /\ UNCHANGED <<py, out, firstOut, signed>>

NewAssetType ==
    /\ Idle
    /\ \E type \in AssetKinds, precision \in Precisions :
            Construct([kind |-> "AssetType", type |-> type, precision |-> precision],
                      AssetType_init_err(type, precision), AssetType_init(type, precision))

NewCreateAccountHeader ==
    /\ Idle
    /\ \E kt \in {<<Bytes(PubKeyOctets), tz>> : tz \in Timezones}
                  \cup {<<Str(PubKeyOctets), Str(<<85, 84, 67>>)>>},
           metadata \in Metadatas \cup {None} :
            Construct([kind |-> "CreateAccount", metadata |-> metadata],
                      IF metadata.t = "dict" THEN "" ELSE "AssertionError",
                      [kind |-> "CreateAccount", pubKey |-> kt[1], timezone |-> kt[2],
                       metadata |-> metadata])

NewCreateAssetHeader ==
    /\ Idle
    /\ \E name \in AssetNames, supply \in Supplies, asset_type \in AssetKinds,
           reference \in References, precision \in {None, IntOf(3), IntOf(7)} :
            Construct([kind |-> "CreateAsset", supply |-> supply, asset_type |-> asset_type,
                       precision |-> precision],
                      CreateAssetHeader_init_err(name, supply, asset_type, reference, Addr0, precision),
                      CreateAssetHeader_init(py, name, supply, asset_type, reference, Addr0, precision))

NewCreateContractHeader ==
    /\ Idle
    /\ \E script \in Scripts, address \in {Addr0, AddrFF, AddrBad, None} :
            Construct([kind |-> "CreateContract", script |-> script, address |-> address],
                      "", CreateContractHeader_init(script, Addr0, address, IntOf(0)))

NewTransferAssetHeader ==
    /\ Idle
    /\ \E addrs \in {<<Addr0, AddrFF>>, <<AddrShort, AddrFF>>, <<AddrBad, AddrFF>>,
                      <<Addr0, None>>},
           balance \in Amounts :
            Construct([kind |-> "Transfer"], "", [kind |-> "Transfer", assetAddr |-> addrs[1], toAddr |-> addrs[2],
                           balance |-> balance])

NewCirculateAssetHeader ==
    /\ Idle
    /\ \E assetAddr \in {Addr0, AddrBad}, amount \in Amounts :
            Construct([kind |-> "Circulate"], "", [kind |-> "Circulate", assetAddr |-> assetAddr, amount |-> amount])

NewRevokeAccountHeader ==
    /\ Idle
    /\ \E account_addr \in {Addr0, AddrFF, AddrShort, AddrBad, None} :
            Construct([kind |-> "RevokeAccount"], "", [kind |-> "RevokeAccount", address |-> account_addr])

NewRevokeAssetHeader ==
    /\ Idle
    /\ \E asset_addr \in {Addr0, AddrFF, AddrShort, AddrBad, None} :
            Construct([kind |-> "RevokeAsset"], "", [kind |-> "RevokeAsset", address |-> asset_addr])

NewCallHeader ==
    /\ Idle
    /\ \E am \in {<<Addr0, m>> : m \in Methods} \cup {<<AddrBad, Str(<<102>>)>>},
           args \in ArgLists :
            Construct([kind |-> "Call"], "", [kind |-> "Call", address |-> am[1], method |-> am[2], args |-> args])

NewBindHeader ==
    /\ Idle
    /\ \E asset_addr \in {Addr0, AddrFF}, contract_addr \in {AddrFF, AddrRaw},
           proof \in Proofs :
            Construct([kind |-> "Bind"], "", [kind |-> "Bind", asset |-> asset_addr, contract |-> contract_addr,
                           proof |-> proof])

NewSyncHeader ==
    /\ Idle
    /\ \E contract_addr \in {Addr0, AddrFF, AddrRaw, None} :
            Construct([kind |-> "SyncLocal"], "", [kind |-> "SyncLocal", contract |-> contract_addr])

\* variant: a to_binary that uses up the fields it has written
ToBinary_consuming ==
    /\ header # NoObject
    /\ out' = to_binary(py, header)
    /\ firstOut' = IF firstOut = NotCalled THEN out' ELSE firstOut
    /\ header' = IF header.kind = "CreateAccount"
                 THEN [header EXCEPT !.metadata = [t |-> "dict", v |-> <<>>]]
                 ELSE [kind |-> header.kind]
    /\ UNCHANGED <<py, request, built, raised, signed>>

\* header.to_binary()
ToBinary ==
    /\ header # NoObject
    /\ out' = to_binary(py, header)
    /\ firstOut' = IF firstOut = NotCalled THEN out' ELSE firstOut
    /\ UNCHANGED <<py, request, header, built, raised, signed>>

\* variant: ecdsa_sign(privkey, stream), the caller's k not handed on
Sign_unseeded ==
    /\ header # NoObject
    /\ BagCardinality(signed) < MaxSigns
    /\ LET stream == to_binary(py, header)
       IN  \E rq \in SignRequests :
               \E nonce \in RandomNonces :
                   signed' = signed (+) SetToBag(
                       {[privkey |-> rq[1], k |-> rq[2], err |-> stream.err,
                         sig |-> IF stream.err = "" THEN ecdsa_sign(rq[1], stream.bytes, nonce)
                                 ELSE NoObject]})
    /\ UNCHANGED <<py, request, header, built, raised, out, firstOut>>

\* header.sign(privkey, k): Serializable.sign
Sign ==
    /\ header # NoObject
    /\ BagCardinality(signed) < MaxSigns
    /\ LET stream == to_binary(py, header)
       IN  \E rq \in SignRequests :
               \E nonce \in IF IsNone(rq[2]) THEN RandomNonces ELSE {rq[2]} :
                   signed' = signed (+) SetToBag(
                       {[privkey |-> rq[1], k |-> rq[2], err |-> stream.err,
                         sig |-> IF stream.err = "" THEN ecdsa_sign(rq[1], stream.bytes, nonce)
                                 ELSE NoObject]})
    /\ UNCHANGED <<py, request, header, built, raised, out, firstOut>>

\* the request is over: the object is dropped, the exception handled
Discard ==
    /\ ~Idle
    /\ request' = NoObject
    /\ header' = NoObject
    /\ built' = NoObject
    /\ raised' = ""
    /\ out' = NotCalled
    /\ firstOut' = NotCalled
    /\ signed' = EmptyBag
    /\ UNCHANGED py

Next ==
    \/ NewAssetType
    \/ NewCreateAccountHeader
    \/ NewCreateAssetHeader
    \/ NewCreateContractHeader
    \/ NewTransferAssetHeader
    \/ NewCirculateAssetHeader
    \/ NewRevokeAccountHeader
    \/ NewRevokeAssetHeader
    \/ NewCallHeader
    \/ NewBindHeader
    \/ NewSyncHeader
    \/ ToBinary
    \/ Sign
    \/ Discard

Spec == Init /\ [][Next]_vars

-----------------------------------------------------------------------------
(* Properties *)

\* the big-endian number in octets i, i+1 of b
U16(b, i) == b[i] * 256 + b[i + 1]

Called == out # NotCalled

Encoded == Called /\ out.err = ""

\* a comes before b in lexicographic order of code points
KeyBefore(a, b) ==
    \E i \in 1..Len(b) :
        /\ \A j \in 1..(i - 1) : j <= Len(a) /\ a[j] = b[j]
        /\ (i > Len(a) \/ a[i] < b[i])

\* the same dict under every insertion order
Reorderings(d) ==
    {[t |-> "dict", v |-> [i \in 1..Len(d.v) |-> d.v[f[i]]]] :
        f \in {g \in [1..Len(d.v) -> 1..Len(d.v)] :
                  \A i, j \in 1..Len(d.v) : i # j => g[i] # g[j]}}

\* the n metadata entries that start at octet pos of b, as <<key, value>>
RECURSIVE ParseEntries(_, _, _)
ParseEntries(b, pos, n) ==
    IF n = 0 THEN <<>>
    ELSE LET kl == U16(b, pos)
             vl == U16(b, pos + 2 + kl)
         IN  <<<<SubSeq(b, pos + 2, pos + 1 + kl),
                 SubSeq(b, pos + 4 + kl, pos + 3 + kl + vl)>>>>
             \o ParseEntries(b, pos + 4 + kl + vl, n - 1)

\* where the metadata count of an encoded CreateAccount header starts
CountAt(b) == 7 + U16(b, 3) + U16(b, 5 + U16(b, 3))

EncodedEntries(b) == ParseEntries(b, CountAt(b) + 2, U16(b, CountAt(b)))

\* C1: CreateAccountHeader.to_binary visits the metadata keys in ascending
\* lexicographic order: the encoded entries are in ascending key order (for
\* {"b": "2", "a": "1"}, a then b), and the same key/value pairs inserted in
\* any other order give the same bytes.
C1_MetadataOrder ==
    (header.kind = "CreateAccount" /\ Called) =>
        /\ \A d \in Reorderings(header.metadata) :
               to_binary(py, [header EXCEPT !.metadata = d]) = out
        /\ out.err = "" =>
               LET es == EncodedEntries(out.bytes)
               IN  /\ Len(es) = Len(header.metadata.v)
                   /\ \A i \in 1..(Len(es) - 1) : KeyBefore(es[i][1], es[i + 1][1])
                   /\ (\A i \in 1..Len(es) : IsAscii(header.metadata.v[i][1])) =>
                          {es[i][1] : i \in 1..Len(es)}
                              = {header.metadata.v[i][1] : i \in 1..Len(es)}

\* a header whose metadata was inserted as b, a has been encoded
C1_Witness ==
    /\ header.kind = "CreateAccount"
    /\ Encoded
    /\ IterKeys(header.metadata) = <<<<98>>, <<97>>>>
    /\ EncodedEntries(out.bytes) = <<<<<<97>>, <<49>>>>, <<<<98>>, <<50>>>>>>

\* the (kind, precision) pairs of an AssetType
ValidAssetType(type, precision) ==
    \/ type = AssetFractional /\ \E x \in 1..6 : precision = IntOf(x)
    \/ type \in {AssetDiscrete, AssetBinary} /\ precision = None

\* C2: AssetType's constructor returns an object exactly for a kind among
\* Discrete, Binary, Fractional with a precision in 1..6 when the kind is
\* Fractional and None otherwise; every other pair raises, so every AssetType
\* object holds such a pair.
C2_AssetTypeValidated ==
    /\ request.kind = "AssetType" =>
           /\ (raised = "") <=> ValidAssetType(request.type, request.precision)
           /\ raised = "" => header.kind = "AssetType" /\ header.type = request.type
           /\ raised # "" => header = NoObject
    /\ header.kind = "AssetType" => ValidAssetType(header.type, header.precision)

\* Fractional with precision 7 was refused
C2_Witness ==
    /\ request = [kind |-> "AssetType", type |-> AssetFractional, precision |-> IntOf(7)]
    /\ raised = "ValueError"
    /\ header = NoObject

HeaderKinds ==
    {"CreateAccount", "CreateAsset", "CreateContract", "Transfer", "Circulate",
     "RevokeAccount", "RevokeAsset", "Call", "Bind", "SyncLocal"}

\* the octets of b from pos that hold one encoded value: its width
ValueWidth(b, pos) ==
    CASE b[pos] = VType.VInt -> 9
      [] b[pos] = VType.VBool -> 2
      [] b[pos] \in {VType.VAddress, VType.VAccount, VType.VAsset, VType.VContract} -> 33
      [] b[pos] = VType.VMsg -> 3 + U16(b, pos + 1)
      [] OTHER -> 1

\* the contents of the Msg values among the n values that start at pos
RECURSIVE MsgFields(_, _, _)
MsgFields(b, pos, n) ==
    IF n = 0 THEN <<>>
    ELSE (IF b[pos] = VType.VMsg
          THEN <<SubSeq(b, pos + 3, pos + 2 + U16(b, pos + 1))>> ELSE <<>>)
         \o MsgFields(b, pos + ValueWidth(b, pos), n - 1)

\* the octet after the n values that start at pos
RECURSIVE ValuesEnd(_, _, _)
ValuesEnd(b, pos, n) ==
    IF n = 0 THEN pos ELSE ValuesEnd(b, pos + ValueWidth(b, pos), n - 1)

\* the octet after the n metadata entries that start at pos
RECURSIVE EntriesEnd(_, _, _)
EntriesEnd(b, pos, n) ==
    IF n = 0 THEN pos
    ELSE EntriesEnd(b, pos + 4 + U16(b, pos) + U16(b, pos + 2 + U16(b, pos)), n - 1)

\* the text fields of h as they stand in its encoding b, and in full
EmittedText(h, b) ==
    CASE h.kind = "CreateAccount" ->
            <<SubSeq(b, 7 + U16(b, 3), CountAt(b) - 1)>>
            \o Flatten([i \in 1..Len(EncodedEntries(b)) |->
                           <<EncodedEntries(b)[i][1], EncodedEntries(b)[i][2]>>])
      [] h.kind = "CreateAsset" ->
            LET n1 == U16(b, 35)
                n2 == U16(b, 47 + n1)
            IN  <<SubSeq(b, 37, 36 + n1), SubSeq(b, 49 + n1, 48 + n1 + n2)>>
      [] h.kind = "CreateContract" -> <<SubSeq(b, 37, 36 + U16(b, 35))>>
      [] h.kind = "Call" ->
            LET n == U16(b, 41)
            IN  <<SubSeq(b, 43, 42 + n)>> \o MsgFields(b, 51 + n, U16(b, 49 + n))
      [] OTHER -> <<>>

FullText(h) ==
    CASE h.kind = "CreateAccount" ->
            <<Utf8(h.timezone.v)>>
            \o Flatten([i \in 1..Len(h.metadata.v) |->
                           LET k == Sorted(IterKeys(h.metadata))[i]
                           IN  <<Utf8(k), Utf8(GetItem(h.metadata, k).v)>>])
      [] h.kind = "CreateAsset" -> <<Utf8(h.assetName.v), Utf8(h.reference.v)>>
      [] h.kind = "CreateContract" -> <<Utf8(h.script.v)>>
      [] h.kind = "Call" ->
            <<Utf8(h.method.v)>>
            \o Flatten([i \in 1..Len(h.args.v) |->
                           IF h.args.v[i].tag = "VMsg"
                           THEN <<Utf8(h.args.v[i].contents.v)>> ELSE <<>>])
      [] OTHER -> <<>>

\* C3: in every encoding each length prefix is the number of octets emitted
\* for its field, and the field is emitted whole: the octets that follow the
\* prefix of a text field are its full UTF-8 form, multi-octet characters
\* included.
C3_TextFieldsWhole ==
    (header.kind \in HeaderKinds /\ Encoded) =>
        EmittedText(header, out.bytes) = FullText(header)

\* C4: once a header constructor has returned, to_binary and sign on the
\* header do not fail for reasons of content shape (an address that is not
\* base58, an integer outside its field's range, a field of the wrong type);
\* only text that cannot be encoded makes them fail.
C4_ValidatedAtConstruction ==
    header.kind \in HeaderKinds =>
        /\ Called => out.err \in {"", "UnicodeError"}
        /\ \A e \in BagToSet(signed) : e.err \in {"", "UnicodeError"}

\* the address arguments of h, each with the octet at which its field starts
AddressFields(h) ==
    CASE h.kind = "Transfer" -> {<<3, h.assetAddr>>, <<35, h.toAddr>>}
      [] h.kind = "Circulate" -> {<<3, h.assetAddr>>}
      [] h.kind \in {"RevokeAccount", "RevokeAsset", "Call", "CreateContract"} ->
            {<<3, h.address>>}
      [] h.kind = "CreateAsset" -> {<<3, h.assetAddr>>}
      [] h.kind = "Bind" -> {<<3, h.contract>>, <<35, h.asset>>}
      [] h.kind = "SyncLocal" -> {<<3, h.contract>>}
      [] OTHER -> {}

\* C5: in the encoding of every header kind, Bind and SyncLocal included,
\* each address field holds the 32 octets that base58-decoding the textual
\* address gives.
C5_AddressesDecoded ==
    (header.kind \in HeaderKinds /\ Encoded) =>
        \A f \in AddressFields(header) :
            (f[2].t = "str" /\ b58decode(py, f[2]).err = ""
                /\ Len(b58decode(py, f[2]).bytes) = 32)
            => SubSeq(out.bytes, f[1], f[1] + 31) = b58decode(py, f[2]).bytes

\* the length of an encoded CreateAsset header up to and with the type name
AssetLayoutEnd(b) ==
    LET n1 == U16(b, 35)
        n2 == U16(b, 47 + n1)
        n3 == U16(b, 49 + n1 + n2)
    IN  50 + n1 + n2 + n3

\* C6: CreateAssetHeader.to_binary ends with eight octets holding the
\* precision exactly when the asset type is Fractional; for Discrete and
\* Binary the encoding ends with the type name.
C6_PrecisionIffFractional ==
    (header.kind = "CreateAsset" /\ Encoded) =>
        IF request.asset_type = AssetFractional
        THEN /\ Len(out.bytes) = AssetLayoutEnd(out.bytes) + 8
             /\ SubSeq(out.bytes, Len(out.bytes) - 7, Len(out.bytes)) = Int8(request.precision)
        ELSE Len(out.bytes) = AssetLayoutEnd(out.bytes)

\* the length the kind's layout declares for the encoding b of h: the tag,
\* the fixed-width fields, and each variable field's prefix and declared length
DeclaredLength(h, b) ==
    CASE h.kind = "Transfer" -> 2 + 32 + 32 + 8
      [] h.kind = "Circulate" -> 2 + 32 + 8
      [] h.kind \in {"RevokeAccount", "RevokeAsset", "SyncLocal"} -> 2 + 32
      [] h.kind = "Bind" -> 2 + 32 + 32 + Len(h.proof.v)
      [] h.kind = "CreateContract" -> 2 + 32 + 2 + U16(b, 35)
      [] h.kind = "Call" ->
            ValuesEnd(b, 51 + U16(b, 41), U16(b, 49 + U16(b, 41))) - 1
      [] h.kind = "CreateAccount" ->
            EntriesEnd(b, CountAt(b) + 2, U16(b, CountAt(b))) - 1
      [] h.kind = "CreateAsset" ->
            AssetLayoutEnd(b) + (IF request.asset_type = AssetFractional THEN 8 ELSE 0)

\* C7: the length of every header's encoding is the two octets of the kind
\* tag plus the widths of the kind's fixed-width fields plus, for each
\* variable field, its length prefix and the length the prefix declares.
C7_NoSlack ==
    (header.kind \in HeaderKinds /\ Encoded) =>
        Len(out.bytes) = DeclaredLength(header, out.bytes)

\* C8: sign hands the signer the bytes to_binary returns, with the caller's
\* key and nonce, so sign calls on the same canonical bytes with the same key
\* and the same fixed nonce return the same signature.
C8_SignsCanonicalBytes ==
    signed # EmptyBag =>
        LET stream == to_binary(py, header)
        IN  \A e \in BagToSet(signed) :
                /\ e.err = stream.err
                /\ e.err = "" =>
                       /\ e.sig.msg = stream.bytes
                       /\ e.sig.key = e.privkey
                       /\ ~IsNone(e.k) => e.sig.nonce = e.k
                /\ \A f \in BagToSet(signed) :
                       (e.privkey = f.privkey /\ e.k = f.k /\ ~IsNone(e.k)) => e.sig = f.sig

\* two sign calls with the same key and the same fixed nonce gave one signature
C8_Witness ==
    \E e \in BagToSet(signed) :
        /\ ~IsNone(e.k)
        /\ e.err = ""
        /\ e.sig.msg # <<>>
        /\ CopiesIn(e, signed) = 2

\* C9: to_binary and sign leave the header as the constructor returned it,
\* and every later to_binary, sign's own included, returns what the first
\* to_binary returned.
C9_HeaderUnchanged ==
    header # NoObject =>
        /\ header = built
        /\ Called => out = firstOut
        /\ Called => \A e \in BagToSet(signed) :
                         /\ e.err = firstOut.err
                         /\ e.err = "" => e.sig.msg = firstOut.bytes

\* a header with metadata has been encoded and signed and is as it was built
C9_Witness ==
    /\ header.kind = "CreateAccount"
    /\ Len(header.metadata.v) = 2
    /\ Encoded
    /\ BagCardinality(signed) = 2
    /\ header = built

Int64(x) == x.t = "int" /\ x.v[1] >= -32768 /\ x.v[1] < 32768

\* the unsigned big-endian number in the eight octets b, in digits of 16, 24
\* and 24 bits
U64(b) ==
    <<U16(b, 1), (b[3] * 256 + b[4]) * 256 + b[5], (b[6] * 256 + b[7]) * 256 + b[8]>>

\* C10: for a balance in the signed 64-bit range, TransferAssetHeader's
\* to_binary returns 74 octets: the kind tag, the 32 octets of the asset
\* address, the 32 octets of the destination, and the balance as a big-endian
\* two's-complement number, a negative balance b stored as 2^64 + b.
C10_TransferLayout ==
    (header.kind = "Transfer" /\ Called /\ Int64(header.balance)
        /\ b58decode(py, header.assetAddr).err = ""
        /\ b58decode(py, header.toAddr).err = "") =>
        /\ out.err = ""
        /\ Len(out.bytes) = 74
        /\ U16(out.bytes, 1) = TxType.Transfer
        /\ SubSeq(out.bytes, 3, 34) = FitTo(b58decode(py, header.assetAddr).bytes, 32)
        /\ SubSeq(out.bytes, 35, 66) = FitTo(b58decode(py, header.toAddr).bytes, 32)
        /\ U64(SubSeq(out.bytes, 67, 74))
               = <<header.balance.v[1] % 65536, header.balance.v[2], header.balance.v[3]>>

\* the transfer of -5 from the all-zero asset address to the all-0xFF address
C10_Witness ==
    /\ header.kind = "Transfer"
    /\ header.balance = PyInt(-1, Limb - 1, Limb - 5)
    /\ Encoded
    /\ SubSeq(out.bytes, 3, 34) = [i \in 1..32 |-> 0]
    /\ SubSeq(out.bytes, 35, 66) = [i \in 1..32 |-> 255]
    /\ SubSeq(out.bytes, 67, 74) = <<255, 255, 255, 255, 255, 255, 255, 251>>

U64Octets(n) == <<0, 0, 0, 0, 0, 0, 0, n>>

\* the ValueCodec encodings of the arguments, in the order of the list
ArgsInOrder(p, args) ==
    Flatten([i \in 1..Len(args) |-> ValueToBinary(p, args[i]).bytes])

\* C12: CallHeader.to_binary emits the kind tag, the 32 octets of the contract
\* address, the method name under its length, the number of arguments (not
\* the number of their octets) as an eight-octet unsigned count, and then the
\* encodings of the arguments in the order the caller gave them, with nothing
\* after the last one.
C12_CallLayout ==
    (header.kind = "Call" /\ Encoded) =>
        LET m == Utf8(header.method.v)
            n == Len(m)
            args == header.args.v
            enc == ArgsInOrder(py, args)
            b == out.bytes
        IN  /\ Len(b) = 50 + n + Len(enc)
            /\ U16(b, 1) = TxType.Call
            /\ SubSeq(b, 3, 34) = FitTo(b58decode(py, header.address).bytes, 32)
            /\ SubSeq(b, 35, 42) = U64Octets(n)
            /\ SubSeq(b, 43, 42 + n) = m
            /\ SubSeq(b, 43 + n, 50 + n) = U64Octets(Len(args))
            /\ SubSeq(b, 51 + n, Len(b)) = enc

\* C13: a CreateAccount header with an empty metadata map encodes to the kind
\* tag, the public key under its length, the timezone under its length and a
\* two-octet zero count, with nothing after it; the branch of to_binary for a
\* non-empty map, run on the same header, gives the same result.
C13_EmptyMetadata ==
    (header.kind = "CreateAccount" /\ PyLen(header.metadata) = 0 /\ Called
        /\ HasLen(header.timezone) /\ HasLen(header.pubKey)) =>
        /\ out = CreateAccountWithEntries(py, header)
        /\ out.err = "" =>
               LET k == header.pubKey.v
                   tz == Utf8(header.timezone.v)
                   b == out.bytes
               IN  /\ Len(b) = 2 + 2 + Len(k) + 2 + Len(tz) + 2
                   /\ U16(b, 1) = TxType.CreateAccount
                   /\ U16(b, 3) = Len(k)
                   /\ SubSeq(b, 5, 4 + Len(k)) = k
                   /\ U16(b, 5 + Len(k)) = Len(tz)
                   /\ SubSeq(b, 7 + Len(k), 6 + Len(k) + Len(tz)) = tz
                   /\ SubSeq(b, Len(b) - 1, Len(b)) = <<0, 0>>

=============================================================================
